---- MODULE Spec2Model ----
(***************************************************************************)
(* Model of the scene reconciliation of the wireframe editor               *)
(* (src/wireframes/renderer/editor.tsx): Editor.renderDiagram,             *)
(* Editor.getFlattenShapes and ShapeRef, driven by componentDidUpdate and  *)
(* initDiagramScope; and of the ui actions, the toast middleware and the   *)
(* ui reducer (src/wireframes/model/actions/ui.ts).                        *)
(***************************************************************************)
EXTENDS Integers, Sequences, FiniteSets, TLC

\* ------------------------------------------------------------------------
\* Bounds of the model
\* ------------------------------------------------------------------------

\* Cap on the element id counter of the svg surface (ids are never reused).
MaxElem == 3

\* ------------------------------------------------------------------------
\* The diagram model consumed by the editor (props.selectedDiagram)
\* ------------------------------------------------------------------------

ShapeIds == {"S1", "S2", "S3"}
GroupIds == {"G1", "G2"}

\* rendererService.registeredRenderers: the keys that have a Renderer.
RegisteredRenderers == {"Rect", "Oval"}

\* What a failed lookup registeredRenderers[key] yields.
Undefined == "undefined"

\* A DiagramShape object.  ver stands for the object's identity: two Shape
\* values of one id are the same reference iff their records are equal.
Shape(id, ver, renderer) ==
    [kind |-> "shape", id |-> id, ver |-> ver, renderer |-> renderer, childIds |-> <<>>]

\* A DiagramGroup object.
Group(id, childIds) ==
    [kind |-> "group", id |-> id, ver |-> 0, renderer |-> "", childIds |-> childIds]

\* The value of ShapeRef.shape before the first render.
NoShape == [kind |-> "undefined", id |-> "", ver |-> 0, renderer |-> "", childIds |-> <<>>]

\* The value of ShapeRef.renderedElement before the first render.
NoElement == 0

EmptyMap == [k \in {} |-> 0]

\* props.selectedDiagram when no diagram is selected.
NoDiagram == [defined |-> FALSE, rootIds |-> <<>>, items |-> EmptyMap]

\* The shapes of the tree: root ids, child ids of G1 and of G2.  "X" is an id
\* that never resolves in the item mapping.
Layouts ==
    { [rootIds |-> <<"S1">>,             g1 |-> <<>>,                 g2 |-> <<>>],
      [rootIds |-> <<"S1", "S2">>,       g1 |-> <<>>,                 g2 |-> <<>>],
      [rootIds |-> <<"S2", "S1">>,       g1 |-> <<>>,                 g2 |-> <<>>],
      [rootIds |-> <<"G1", "S1">>,       g1 |-> <<"S2", "S3">>,       g2 |-> <<>>],
      [rootIds |-> <<"G1", "S2">>,       g1 |-> <<"S3", "G2">>,       g2 |-> <<"S1">>],
      [rootIds |-> <<"X", "S1">>,        g1 |-> <<>>,                 g2 |-> <<>>],
      [rootIds |-> <<"G1", "S1">>,       g1 |-> <<"S2", "X", "S3">>,  g2 |-> <<>>],
      [rootIds |-> <<"S1", "G1">>,       g1 |-> <<"S2", "S1">>,       g2 |-> <<>>] }

\* The Shape values S1 can hold: one for each registered key and one with a
\* key nobody registered.
S1Values ==
    { Shape("S1", 1, "Rect"), Shape("S1", 2, "Oval"), Shape("S1", 3, "Ghost") }

\* The Shape values S2 can hold: one for each registered key.
S2Values ==
    { Shape("S2", 1, "Rect"), Shape("S2", 2, "Oval") }

RECURSIVE Reachable(_, _)
\* The ids reachable from a list of ids through the child lists of a layout.
Reachable(l, ids) ==
    IF ids = <<>> THEN {}
    ELSE LET id == Head(ids)
             below == IF id = "G1" THEN Reachable(l, l.g1)
                      ELSE IF id = "G2" THEN Reachable(l, l.g2)
                      ELSE {}
         IN  {id} \cup below \cup Reachable(l, Tail(ids))

\* The Diagram with layout l in which S1 holds the value s1 and S2 the value s2.
MakeDiagram(l, s1, s2) ==
    LET ids == Reachable(l, l.rootIds) \cap (ShapeIds \cup GroupIds)
    IN  [defined |-> TRUE,
         rootIds |-> l.rootIds,
         items   |-> [id \in ids |->
                        IF id = "S1" THEN s1
                        ELSE IF id = "S2" THEN s2
                        ELSE IF id = "G1" THEN Group("G1", l.g1)
                        ELSE IF id = "G2" THEN Group("G2", l.g2)
                        ELSE Shape(id, 1, "Rect")]]

Diagrams ==
    { MakeDiagram(l, s1, s2) : l \in Layouts, s1 \in S1Values, s2 \in S2Values }

\* ------------------------------------------------------------------------
\* State
\* ------------------------------------------------------------------------

VARIABLES
    selectedDiagram,           \* props.selectedDiagram
    diagramDoc,                \* TRUE once this.diagramDoc is set
    shapeRefsById,             \* shape id -> ShapeRef object
    shapeRefsByRenderElement,  \* element id -> ShapeRef object
    shapeRefs,                 \* the ShapeRef objects: object -> fields
    scene,                     \* the children of diagramDoc, in paint order
    nextElem,                  \* the next element id the svg surface assigns
    allShapes,                 \* allShapes of the last pass
    renderCalls,               \* the calls of Renderer.render in the last pass
    processed,                 \* the shapes the last pass's second loop finished
    outcome,                   \* how the last renderDiagram ended
    pre,                       \* the state the last pass started from
    pc,                        \* where renderDiagram stands: idle, flatten, prune, render
    stack,                     \* the running handleContainer calls: the ids each has left
    pruneTodo,                 \* the ids the first loop has left
    forceUpdate,               \* TRUE while the update initDiagramScope forces is due
    preAborted,                \* what the pass before the last started from, if it aborted
    uiState,                   \* the UIState the reducer of ui.ts has returned last
    uiBefore,                  \* the UIState the last dispatch started from
    call,                      \* the action creator call of the last dispatch
    dispatched,                \* the action of the last dispatch
    toasts,                    \* the toasts the last dispatch displayed
    nextLog,                   \* the calls of next in the last dispatch
    returned                   \* what the middleware returned for the last dispatch

\* The state of the ui.ts part.
uiVars == <<uiState, uiBefore, call, dispatched, toasts, nextLog, returned>>

\* The state of the editor.tsx part.
editorVars == <<selectedDiagram, diagramDoc, shapeRefsById, shapeRefsByRenderElement,
                shapeRefs, scene, nextElem, allShapes, renderCalls, processed,
                outcome, pre, pc, stack, pruneTodo, forceUpdate, preAborted>>

vars == <<editorVars, uiVars>>

\* The position of a pass that runs step by step.
position == <<pc, stack, pruneTodo, forceUpdate>>

\* ------------------------------------------------------------------------
\* Editor.getFlattenShapes
\* ------------------------------------------------------------------------

RECURSIVE handleContainer_groupsLast(_, _)
\* A walk that puts the shapes of a group behind the rest of its list.
handleContainer_groupsLast(diagram, itemIds) ==
    IF itemIds = <<>> THEN <<>>
    ELSE LET itemId == Head(itemIds)
             rest == handleContainer_groupsLast(diagram, Tail(itemIds))
         IN  IF itemId \notin DOMAIN diagram.items THEN rest
             ELSE LET item == diagram.items[itemId]
                  IN  IF item.kind = "shape" THEN <<item>> \o rest
                      ELSE rest \o handleContainer_groupsLast(diagram, item.childIds)

RECURSIVE handleContainer_stopAtDangling(_, _)
\* A walk that gives up on a list at the first id that does not resolve.
handleContainer_stopAtDangling(diagram, itemIds) ==
    IF itemIds = <<>> THEN <<>>
    ELSE LET itemId == Head(itemIds)
         IN  IF itemId \notin DOMAIN diagram.items THEN <<>>
             ELSE LET item == diagram.items[itemId]
                      here == IF item.kind = "shape" THEN <<item>>
                              ELSE handleContainer_stopAtDangling(diagram, item.childIds)
                  IN  here \o handleContainer_stopAtDangling(diagram, Tail(itemIds))

RECURSIVE handleContainer(_, _)
\* handleContainer of getFlattenShapes; the result is what it pushes.
handleContainer(diagram, itemIds) ==
    IF itemIds = <<>> THEN <<>>
    ELSE LET itemId == Head(itemIds)
             here ==
                 IF itemId \notin DOMAIN diagram.items THEN <<>>
                 ELSE LET item == diagram.items[itemId]
                      IN  IF item.kind = "shape" THEN <<item>>
                          ELSE IF item.kind = "group"
                               THEN handleContainer(diagram, item.childIds)
                               ELSE <<>>
         IN  here \o handleContainer(diagram, Tail(itemIds))

getFlattenShapes(diagram) ==
    IF diagram.defined THEN handleContainer(diagram, diagram.rootIds) ELSE <<>>

\* ------------------------------------------------------------------------
\* The svg surface and the Renderer
\* ------------------------------------------------------------------------

\* svg.Element.remove: takes the element out of its parent.
ElementRemove(sc, e) == SelectSeq(sc, LAMBDA x : x # e)

\* svg.Doc.add: appends the element; an element that is already a child moves
\* to the end (DOM appendChild).
DocAdd(sc, e) == Append(ElementRemove(sc, e), e)

\* Renderer.render after setContext(doc): a new element with a fresh id,
\* created in the doc the renderer is bound to.
RendererRender(E, renderer, shape) ==
    [E EXCEPT !.scene = Append(@, E.next),
              !.calls = Append(@, [renderer |-> renderer, shape |-> shape,
                                   element |-> E.next]),
              !.next  = @ + 1]

\* ------------------------------------------------------------------------
\* ShapeRef
\* ------------------------------------------------------------------------

\* process.env.NODE_ENV === 'production': the model is of a development build.
isProduction == FALSE

\* The svg.Doc the canvas hands to initDiagramScope.
TheDoc == "doc"

\* new ShapeRef(this.diagramDoc, renderer, !isProduction)
NewShapeRef(renderer) ==
    [shape |-> NoShape, renderedElement |-> NoElement, renderer |-> renderer,
     doc |-> TheDoc, showDebugMarkers |-> ~isProduction]

\* A remove that leaves the element where it is.
ShapeRefRemove_keepsAttached(E, ref) == E

\* ShapeRef.remove
ShapeRefRemove(E, ref) ==
    IF E.refs[ref].renderedElement # NoElement
    THEN [E EXCEPT !.scene = ElementRemove(@, E.refs[ref].renderedElement)]
    ELSE E

\* A render that takes the cheap path whenever the shape's id is the one last
\* rendered.
ShapeRefRender_comparesIds(E, ref, shape) ==
    LET r == E.refs[ref]
        mustRender == r.shape.id # shape.id \/ r.renderedElement = NoElement
    IN  IF mustRender
        THEN IF r.renderer = Undefined
             THEN [E EXCEPT !.thrown = TRUE]
             ELSE LET E1 == RendererRender(E, r.renderer, shape)
                  IN  [E1 EXCEPT !.refs[ref].renderedElement = E.next,
                                 !.refs[ref].shape = shape]
        ELSE [E EXCEPT !.scene = DocAdd(@, r.renderedElement),
                       !.refs[ref].shape = shape]

\* A render without the cheap path.
ShapeRefRender_always(E, ref, shape) ==
    LET r == E.refs[ref]
    IN  IF r.renderer = Undefined
        THEN [E EXCEPT !.thrown = TRUE]
        ELSE LET E1 == RendererRender(E, r.renderer, shape)
             IN  [E1 EXCEPT !.refs[ref].renderedElement = E.next,
                            !.refs[ref].shape = shape]

\* A cheap path that does not put the element back.
ShapeRefRender_noReattach(E, ref, shape) ==
    LET r == E.refs[ref]
        mustRender == r.shape # shape \/ r.renderedElement = NoElement
    IN  IF mustRender
        THEN IF r.renderer = Undefined
             THEN [E EXCEPT !.thrown = TRUE]
             ELSE LET E1 == RendererRender(E, r.renderer, shape)
                  IN  [E1 EXCEPT !.refs[ref].renderedElement = E.next,
                                 !.refs[ref].shape = shape]
        ELSE [E EXCEPT !.refs[ref].shape = shape]

\* A render that never updates the last-rendered Shape after the first one.
ShapeRefRender_keepsShape(E, ref, shape) ==
    LET r == E.refs[ref]
        mustRender == r.shape # shape \/ r.renderedElement = NoElement
        kept == IF r.shape = NoShape THEN shape ELSE r.shape
    IN  IF mustRender
        THEN IF r.renderer = Undefined
             THEN [E EXCEPT !.thrown = TRUE]
             ELSE LET E1 == RendererRender(E, r.renderer, shape)
                  IN  [E1 EXCEPT !.refs[ref].renderedElement = E.next,
                                 !.refs[ref].shape = kept]
        ELSE [E EXCEPT !.scene = DocAdd(@, r.renderedElement)]

\* ShapeRef.render.  E.refs holds the ref's fields; a call on an undefined
\* renderer throws.
ShapeRefRender(E, ref, shape) ==
    LET r == E.refs[ref]
        mustRender == r.shape # shape \/ r.renderedElement = NoElement
    IN  IF mustRender
        THEN IF r.renderer = Undefined
             THEN [E EXCEPT !.thrown = TRUE]
             ELSE LET E1 == RendererRender(E, r.renderer, shape)
                  IN  [E1 EXCEPT !.refs[ref].renderedElement = E.next,
                                 !.refs[ref].shape = shape]
        ELSE [E EXCEPT !.scene = DocAdd(@, r.renderedElement),
                       !.refs[ref].shape = shape]

\* ------------------------------------------------------------------------
\* Editor.renderDiagram
\* ------------------------------------------------------------------------

Remove(f, k) == [x \in DOMAIN f \ {k} |-> f[x]]

\* A first loop that detaches only the elements of the refs it deletes.
PruneOne_keepsLive(E, id, allShapesById) ==
    IF id \notin allShapesById
    THEN LET ref == E.byId[id]
             E1  == [E EXCEPT !.scene = SelectSeq(@, LAMBDA x :
                                            x # E.refs[ref].renderedElement)]
         IN  [E1 EXCEPT !.byId = [x \in DOMAIN @ \ {id} |-> @[x]],
                        !.byElem = [x \in DOMAIN @ \ {E.refs[ref].renderedElement}
                                      |-> @[x]]]
    ELSE E

\* The body of the first loop for one id.
PruneOne(E, id, allShapesById) ==
    LET ref == E.byId[id]
        E1  == ShapeRefRemove(E, ref)
    IN  IF id \notin allShapesById
        THEN [E1 EXCEPT !.byId = Remove(@, id),
                        !.byElem = Remove(@, E.refs[ref].renderedElement)]
        ELSE E1

RECURSIVE PruneLoop(_, _, _)
\* for (let id in this.shapeRefsById)
PruneLoop(E, ids, allShapesById) ==
    IF ids = {} THEN E
    ELSE LET id == CHOOSE x \in ids : TRUE
         IN  PruneLoop(PruneOne(E, id, allShapesById), ids \ {id}, allShapesById)

\* A second loop that makes a new ShapeRef for a Shape value it has not
\* rendered before.
RenderOne_newRefOnReplace(E, shape) ==
    LET known == /\ shape.id \in DOMAIN E.byId
                 /\ E.refs[E.byId[shape.id]].shape = shape
        ref == IF known THEN E.byId[shape.id] ELSE E.next
        renderer == IF shape.renderer \in RegisteredRenderers
                    THEN shape.renderer ELSE Undefined
        E0 == IF known THEN E
              ELSE [E EXCEPT !.refs = (ref :> NewShapeRef(renderer)) @@ @]
        E1 == ShapeRefRender(E0, ref, shape)
    IN  IF E1.thrown
        THEN [E EXCEPT !.thrown = TRUE]
        ELSE [E1 EXCEPT !.byElem = (E1.refs[ref].renderedElement :> ref) @@ @,
                        !.byId = (shape.id :> ref) @@ @,
                        !.done = @ + 1]

\* The body of the second loop for one shape.
RenderOne(E, shape) ==
    LET known == shape.id \in DOMAIN E.byId
        ref == IF known THEN E.byId[shape.id] ELSE E.next
        renderer == IF shape.renderer \in RegisteredRenderers
                    THEN shape.renderer ELSE Undefined
        E0 == IF known THEN E
              ELSE [E EXCEPT !.refs = (ref :> NewShapeRef(renderer)) @@ @]
        E1 == ShapeRefRender(E0, ref, shape)
    IN  IF E1.thrown
        THEN [E EXCEPT !.thrown = TRUE]
        ELSE [E1 EXCEPT !.byElem = (E1.refs[ref].renderedElement :> ref) @@ @,
                        !.byId = (shape.id :> ref) @@ @,
                        !.done = @ + 1]

RECURSIVE RenderLoop(_, _)
\* for (let shape of allShapes)
RenderLoop(E, shapes) ==
    IF shapes = <<>> \/ E.thrown THEN E
    ELSE RenderLoop(RenderOne(E, Head(shapes)), Tail(shapes))

\* ShapeRef objects no table refers to any more are garbage.
Collect(E) ==
    LET live == {E.byId[k] : k \in DOMAIN E.byId} \cup {E.byElem[k] : k \in DOMAIN E.byElem}
    IN  [E EXCEPT !.refs = [o \in live |-> E.refs[o]]]

\* A pass that takes the ids it could not resolve out of the root list.
renderDiagram_dropsDangling(E) ==
    LET shapes == getFlattenShapes(E.diagram)
        allShapesById == {shapes[i].id : i \in 1..Len(shapes)}
        E0 == [E EXCEPT !.calls = <<>>, !.thrown = FALSE, !.done = 0,
                        !.allShapes = shapes]
        E1 == PruneLoop(E0, DOMAIN E0.byId, allShapesById)
    IN  [Collect(RenderLoop(E1, shapes)) EXCEPT
            !.diagram.rootIds = SelectSeq(@, LAMBDA id : id \in DOMAIN E.diagram.items)]

\* renderDiagram with this.diagramDoc set.  E.diagram is props.selectedDiagram,
\* E.done counts the shapes the second loop has finished.
renderDiagram(E) ==
    LET shapes == getFlattenShapes(E.diagram)
        allShapesById == {shapes[i].id : i \in 1..Len(shapes)}
        E0 == [E EXCEPT !.calls = <<>>, !.thrown = FALSE, !.done = 0,
                        !.allShapes = shapes]
        E1 == PruneLoop(E0, DOMAIN E0.byId, allShapesById)
    IN  Collect(RenderLoop(E1, shapes))

\* ------------------------------------------------------------------------
\* ui.ts: action creators, toastMiddleware and the ui reducer
\* ------------------------------------------------------------------------

SHOW_INFO_TOAST == "SHOW_INFO_TOAST"
SHOW_ERROR_TOAST == "SHOW_ERROR_TOAST"
SET_ZOOM == "SET_ZOOM"
SELECT_TAB == "SELECT_TAB"
TOGGLE_LEFT_SIDEBAR == "TOGGLE_LEFT_SIDEBAR"
TOGGlE_RIGHT_SIDEBAR == "TOGGle_RIGHT_SIDEBAR"

\* A type no case of ui.ts names.
OTHER_ACTION == "OTHER_ACTION"

\* The import { message } from 'antd'.
AntdMessage == "antd.message"

\* An action object; a property it does not have reads as undefined.
Action(type) ==
    [type |-> type, text |-> Undefined, message |-> Undefined,
     zoomLevel |-> Undefined, tab |-> Undefined]

showInfoToast(text) == [Action(SHOW_INFO_TOAST) EXCEPT !.text = text]

\* { type: SHOW_ERROR_TOAST, message }: the shorthand property takes the
\* imported message; the parameter text is not used.
showErrorToast(text) == [Action(SHOW_ERROR_TOAST) EXCEPT !.message = AntdMessage]

setZoom(zoomLevel) == [Action(SET_ZOOM) EXCEPT !.zoomLevel = zoomLevel]

selectTab(tab) == [Action(SELECT_TAB) EXCEPT !.tab = tab]

toggleLeftSidebar == Action(TOGGLE_LEFT_SIDEBAR)

toggleRightSidebar == Action(TOGGlE_RIGHT_SIDEBAR)

\* The arguments the creators are called with.
Texts == {"saved", "failed"}
ZoomLevels == {1, 2}
Tabs == {"shapes", "icons"}

\* The calls of action creators, and a hand-made action of another type.
Calls ==
    { [creator |-> "showInfoToast", arg |-> t] : t \in Texts }
        \cup { [creator |-> "showErrorToast", arg |-> t] : t \in Texts }
        \cup { [creator |-> "setZoom", arg |-> z] : z \in ZoomLevels }
        \cup { [creator |-> "selectTab", arg |-> t] : t \in Tabs }
        \cup { [creator |-> c, arg |-> Undefined] :
                  c \in {"toggleLeftSidebar", "toggleRightSidebar", "other"} }

\* The action a call returns.
Create(c) ==
    CASE c.creator = "showInfoToast" -> showInfoToast(c.arg)
      [] c.creator = "showErrorToast" -> showErrorToast(c.arg)
      [] c.creator = "setZoom" -> setZoom(c.arg)
      [] c.creator = "selectTab" -> selectTab(c.arg)
      [] c.creator = "toggleLeftSidebar" -> toggleLeftSidebar
      [] c.creator = "toggleRightSidebar" -> toggleRightSidebar
      [] OTHER -> Action(OTHER_ACTION)

\* The switch of the middleware: the toasts it displays for an action.
ToastsFor(action) ==
    IF action.type = SHOW_INFO_TOAST
    THEN << [kind |-> "info", text |-> action.text] >>
    ELSE IF action.type = SHOW_ERROR_TOAST
         THEN << [kind |-> "error", text |-> action.text] >>
         ELSE <<>>

\* A reducer whose case for the right sidebar flips the left one.
ui_rightFlipsLeft(state, action) ==
    IF action.type = SET_ZOOM
    THEN [state EXCEPT !.zoom = action.zoomLevel]
    ELSE IF action.type = SELECT_TAB
    THEN [state EXCEPT !.selectedTab = action.tab]
    ELSE IF action.type = TOGGLE_LEFT_SIDEBAR
    THEN [state EXCEPT !.showLeftSidebar = ~state.showLeftSidebar]
    ELSE IF action.type = TOGGlE_RIGHT_SIDEBAR
    THEN [state EXCEPT !.showLeftSidebar = ~state.showLeftSidebar]
    ELSE state

\* The reducer ui(initialState) returns.
ui(state, action) ==
    IF action.type = SET_ZOOM
    THEN [state EXCEPT !.zoom = action.zoomLevel]
    ELSE IF action.type = SELECT_TAB
    THEN [state EXCEPT !.selectedTab = action.tab]
    ELSE IF action.type = TOGGLE_LEFT_SIDEBAR
    THEN [state EXCEPT !.showLeftSidebar = ~state.showLeftSidebar]
    ELSE IF action.type = TOGGlE_RIGHT_SIDEBAR
    THEN [state EXCEPT !.showRightSidebar = ~state.showRightSidebar]
    ELSE state

\* What the rest of the dispatch chain may hand back to the middleware.
NextResults == {"action", "promise"}

\* A middleware that returns after a toast without calling next.
toastMiddleware_swallowsToasts(action, result) ==
    /\ toasts' = ToastsFor(action)
    /\ IF ToastsFor(action) # <<>>
       THEN /\ nextLog' = <<>>
            /\ uiState' = uiState
            /\ returned' = Undefined
       ELSE /\ nextLog' = << [action |-> action, result |-> result] >>
            /\ uiState' = ui(uiState, action)
            /\ returned' = result

\* The middleware toastMiddleware() returns, run for one action: the switch,
\* then return next(action).  next takes the action to the reducer and hands
\* back a result.
toastMiddleware(action, result) ==
    /\ toasts' = ToastsFor(action)
    /\ nextLog' = << [action |-> action, result |-> result] >>
    /\ uiState' = ui(uiState, action)
    /\ returned' = result

\* store.dispatch(creator(arg))
dispatch(c) ==
    /\ call' = c
    /\ dispatched' = Create(c)
    /\ uiBefore' = uiState
    /\ \E result \in NextResults : toastMiddleware(Create(c), result)
    /\ UNCHANGED editorVars

\* The initialState handed to ui().
InitialUIState ==
    [zoom |-> 1, selectedTab |-> "shapes", showLeftSidebar |-> TRUE,
     showRightSidebar |-> TRUE]

\* The store before the first dispatch.
InitUi ==
    /\ uiState = InitialUIState
    /\ uiBefore = InitialUIState
    /\ call = [creator |-> "none", arg |-> Undefined]
    /\ dispatched = Action("@@INIT")
    /\ toasts = <<>>
    /\ nextLog = <<>>
    /\ returned = Undefined

\* ------------------------------------------------------------------------
\* The editor component
\* ------------------------------------------------------------------------

\* The editor's fields with the props React has set.
Editor(diagram) ==
    [diagram |-> diagram, byId |-> shapeRefsById, byElem |-> shapeRefsByRenderElement,
     refs |-> shapeRefs, scene |-> scene, next |-> nextElem, calls |-> renderCalls,
     allShapes |-> allShapes, done |-> processed, thrown |-> FALSE]

Outcome(E) == IF E.thrown THEN "aborted" ELSE "completed"

\* What a pass starts from: the props it reads (selectedDiagram), whether they
\* are the Diagram the pass before it read (sameDiagram), the editor's fields
\* and how the pass before it ended.
Snapshot(E, prevDiagram, out) ==
    [sameDiagram |-> (prevDiagram = E.diagram), selectedDiagram |-> E.diagram,
     shapeRefsById |-> E.byId, shapeRefsByRenderElement |-> E.byElem,
     shapeRefs |-> E.refs, scene |-> E.scene, nextElem |-> E.next, outcome |-> out]

\* No pass to remember.
NoSnapshot ==
    [shapeRefsById |-> EmptyMap, shapeRefsByRenderElement |-> EmptyMap,
     shapeRefs |-> EmptyMap, scene |-> <<>>, nextElem |-> 0]

\* The editor's fields in a snapshot.
FieldsOf(s) ==
    [shapeRefsById |-> s.shapeRefsById,
     shapeRefsByRenderElement |-> s.shapeRefsByRenderElement,
     shapeRefs |-> s.shapeRefs, scene |-> s.scene, nextElem |-> s.nextElem]

\* At the start of a pass: the fields the pass before it started from, kept
\* when that pass aborted.
AbortedFrom == IF outcome = "aborted" THEN FieldsOf(pre) ELSE NoSnapshot

StoreFields(E) ==
    /\ selectedDiagram' = E.diagram
    /\ shapeRefsById' = E.byId
    /\ shapeRefsByRenderElement' = E.byElem
    /\ shapeRefs' = E.refs
    /\ scene' = E.scene
    /\ nextElem' = E.next
    /\ allShapes' = E.allShapes
    /\ renderCalls' = E.calls
    /\ processed' = E.done

\* The element counter of the model stops at MaxElem.
Fits(E) == E.next <= MaxElem + 1

Store(E) ==
    /\ Fits(E)
    /\ StoreFields(E)
    /\ outcome' = Outcome(E)

\* componentDidUpdate, after React has set the new props: renderDiagram, which
\* returns at once while there is no diagramDoc.
componentDidUpdate(diagram) ==
    /\ pre' = Snapshot(Editor(diagram), selectedDiagram, outcome)
    /\ preAborted' = AbortedFrom
    /\ IF ~diagramDoc
       THEN /\ selectedDiagram' = diagram
            /\ outcome' = "skipped"
            /\ UNCHANGED <<shapeRefsById, shapeRefsByRenderElement, shapeRefs, scene,
                           nextElem, allShapes, renderCalls, processed>>
       ELSE Store(renderDiagram(Editor(diagram)))
    /\ UNCHANGED <<diagramDoc, position, uiVars>>

\* initDiagramScope: the canvas hands over its doc once; renderDiagram, then
\* forceUpdate makes React call componentDidUpdate with the same props.
initDiagramScope ==
    /\ ~diagramDoc
    /\ diagramDoc' = TRUE
    /\ LET E1 == renderDiagram(Editor(selectedDiagram))
       IN  IF E1.thrown
           THEN /\ pre' = Snapshot(Editor(selectedDiagram), selectedDiagram, outcome)
                /\ Store(E1)
           ELSE /\ pre' = Snapshot(E1, selectedDiagram, Outcome(E1))
                /\ Store(renderDiagram(E1))
    /\ preAborted' = NoSnapshot
    /\ UNCHANGED <<position, uiVars>>

\* The component after construction, before the canvas has called back.
InitEditor ==
    /\ selectedDiagram \in Diagrams \cup {NoDiagram}
    /\ diagramDoc = FALSE
    /\ shapeRefsById = EmptyMap
    /\ shapeRefsByRenderElement = EmptyMap
    /\ shapeRefs = EmptyMap
    /\ scene = <<>>
    /\ nextElem = 1
    /\ allShapes = <<>>
    /\ renderCalls = <<>>
    /\ processed = 0
    /\ outcome = "none"
    /\ pc = "idle"
    /\ stack = <<>>
    /\ pruneTodo = {}
    /\ forceUpdate = FALSE
    /\ preAborted = NoSnapshot

Init ==
    /\ InitEditor
    /\ pre = Snapshot(Editor(selectedDiagram), selectedDiagram, "none")
    /\ InitUi

Next ==
    \/ \E diagram \in Diagrams \cup {NoDiagram} : componentDidUpdate(diagram)
    \/ initDiagramScope

Spec == Init /\ [][Next]_vars

\* ------------------------------------------------------------------------
\* renderDiagram step by step: the recursion of handleContainer on a stack,
\* one item id, one pruned id, one rendered shape at a time
\* ------------------------------------------------------------------------

\* Entry of renderDiagram with a diagramDoc: getFlattenShapes starts with an
\* empty list and, for a diagram, the call handleContainer(diagram.rootIds).
enterRenderDiagram(E) ==
    /\ StoreFields([E EXCEPT !.allShapes = <<>>, !.calls = <<>>, !.done = 0])
    /\ outcome' = "running"
    /\ pc' = "flatten"
    /\ stack' = IF E.diagram.defined THEN <<E.diagram.rootIds>> ELSE <<>>
    /\ pruneTodo' = {}

\* componentDidUpdate starts a pass.
componentDidUpdateBegin(diagram) ==
    /\ pc = "idle"
    /\ IF ~diagramDoc
       THEN /\ selectedDiagram' = diagram
            /\ outcome' = "skipped"
            /\ UNCHANGED <<shapeRefsById, shapeRefsByRenderElement, shapeRefs, scene,
                           nextElem, allShapes, renderCalls, processed, position>>
       ELSE /\ Fits(renderDiagram(Editor(diagram)))
            /\ enterRenderDiagram(Editor(diagram))
            /\ forceUpdate' = FALSE
    /\ UNCHANGED <<diagramDoc, pre, preAborted, uiVars>>

\* initDiagramScope sets the doc and starts a pass; forceUpdate is still to come.
initDiagramScopeBegin ==
    /\ pc = "idle"
    /\ ~diagramDoc
    /\ diagramDoc' = TRUE
    /\ Fits(renderDiagram(Editor(selectedDiagram)))
    /\ enterRenderDiagram(Editor(selectedDiagram))
    /\ forceUpdate' = TRUE
    /\ UNCHANGED <<pre, preAborted, uiVars>>

\* A walk in which the call for a group's children takes the place of the
\* call that made it: what that one had left is never visited.
flattenStep_groupEndsList ==
    /\ pc = "flatten"
    /\ IF stack = <<>>
       THEN /\ pc' = "prune"
            /\ pruneTodo' = DOMAIN shapeRefsById
            /\ UNCHANGED <<stack, allShapes>>
       ELSE LET top == stack[Len(stack)]
                below == SubSeq(stack, 1, Len(stack) - 1)
            IN  /\ UNCHANGED <<pc, pruneTodo>>
                /\ IF top = <<>>
                   THEN stack' = below /\ UNCHANGED allShapes
                   ELSE LET itemId == Head(top)
                            rest == Append(below, Tail(top))
                        IN  IF itemId \notin DOMAIN selectedDiagram.items
                            THEN stack' = rest /\ UNCHANGED allShapes
                            ELSE LET item == selectedDiagram.items[itemId]
                                 IN  IF item.kind = "shape"
                                     THEN /\ allShapes' = Append(allShapes, item)
                                          /\ stack' = rest
                                     ELSE /\ stack' = Append(below, item.childIds)
                                          /\ UNCHANGED allShapes
    /\ UNCHANGED <<selectedDiagram, diagramDoc, shapeRefsById, shapeRefsByRenderElement,
                   shapeRefs, scene, nextElem, renderCalls, processed, outcome, pre,
                   forceUpdate, preAborted, uiVars>>

\* One turn of the forEach of the innermost handleContainer call: the call
\* returns when its list is used up, else it takes the next id, pushes a shape
\* or calls itself for the children of a group.  When the outermost call has
\* returned the first loop starts.
flattenStep ==
    /\ pc = "flatten"
    /\ IF stack = <<>>
       THEN /\ pc' = "prune"
            /\ pruneTodo' = DOMAIN shapeRefsById
            /\ UNCHANGED <<stack, allShapes>>
       ELSE LET top == stack[Len(stack)]
                below == SubSeq(stack, 1, Len(stack) - 1)
            IN  /\ UNCHANGED <<pc, pruneTodo>>
                /\ IF top = <<>>
                   THEN stack' = below /\ UNCHANGED allShapes
                   ELSE LET itemId == Head(top)
                            rest == Append(below, Tail(top))
                        IN  IF itemId \notin DOMAIN selectedDiagram.items
                            THEN stack' = rest /\ UNCHANGED allShapes
                            ELSE LET item == selectedDiagram.items[itemId]
                                 IN  IF item.kind = "shape"
                                     THEN /\ allShapes' = Append(allShapes, item)
                                          /\ stack' = rest
                                     ELSE /\ stack' = Append(rest, item.childIds)
                                          /\ UNCHANGED allShapes
    /\ UNCHANGED <<selectedDiagram, diagramDoc, shapeRefsById, shapeRefsByRenderElement,
                   shapeRefs, scene, nextElem, renderCalls, processed, outcome, pre,
                   forceUpdate, preAborted, uiVars>>

\* One turn of the first loop; the second loop starts when no id is left.
pruneStep ==
    /\ pc = "prune"
    /\ IF pruneTodo = {}
       THEN /\ pc' = "render"
            /\ UNCHANGED <<selectedDiagram, shapeRefsById, shapeRefsByRenderElement,
                           shapeRefs, scene, nextElem, allShapes, renderCalls,
                           processed, pruneTodo>>
       ELSE LET id == CHOOSE x \in pruneTodo : TRUE
            IN  /\ StoreFields(PruneOne(Editor(selectedDiagram), id,
                                        {allShapes[i].id : i \in 1..Len(allShapes)}))
                /\ pruneTodo' = pruneTodo \ {id}
                /\ UNCHANGED pc
    /\ UNCHANGED <<diagramDoc, outcome, pre, stack, forceUpdate, preAborted, uiVars>>

\* One turn of the second loop.  An exception ends the pass, and with it
\* initDiagramScope before its forceUpdate; after the last shape renderDiagram
\* returns, and a forced update enters it again with the same props.
renderStep ==
    /\ pc = "render"
    /\ IF processed < Len(allShapes)
       THEN LET E == RenderOne(Editor(selectedDiagram), allShapes[processed + 1])
            IN  /\ StoreFields(IF E.thrown THEN Collect(E) ELSE E)
                /\ pc' = IF E.thrown THEN "idle" ELSE "render"
                /\ outcome' = IF E.thrown THEN "aborted" ELSE outcome
                /\ forceUpdate' = IF E.thrown THEN FALSE ELSE forceUpdate
                /\ UNCHANGED <<stack, pruneTodo>>
       ELSE LET E == Collect(Editor(selectedDiagram))
            IN  IF forceUpdate
                THEN /\ enterRenderDiagram(E)
                     /\ forceUpdate' = FALSE
                ELSE /\ StoreFields(E)
                     /\ pc' = "idle"
                     /\ outcome' = "completed"
                     /\ UNCHANGED <<stack, pruneTodo, forceUpdate>>
    /\ UNCHANGED <<diagramDoc, pre, preAborted, uiVars>>

\* A pass that has started runs on: the code is synchronous.
passStep == flattenStep \/ pruneStep \/ renderStep

NextSteps ==
    \/ \E diagram \in Diagrams \cup {NoDiagram} : componentDidUpdateBegin(diagram)
    \/ initDiagramScopeBegin
    \/ flattenStep
    \/ pruneStep
    \/ renderStep

\* The step by step specification keeps no snapshot of where a pass started.
InitSteps ==
    /\ InitEditor
    /\ pre = Snapshot(Editor(NoDiagram), NoDiagram, "none")
    /\ InitUi

SpecSteps == InitSteps /\ [][NextSteps]_vars /\ WF_vars(passStep)

\* ------------------------------------------------------------------------
\* The store of ui.ts on its own
\* ------------------------------------------------------------------------

InitStore ==
    /\ InitEditor
    /\ selectedDiagram = NoDiagram
    /\ pre = Snapshot(Editor(NoDiagram), NoDiagram, "none")
    /\ InitUi

NextStore == \E c \in Calls : dispatch(c)

SpecStore == InitStore /\ [][NextStore]_vars

\* ------------------------------------------------------------------------
\* Vocabulary of the properties
\* ------------------------------------------------------------------------

\* The last call of renderDiagram got past the diagramDoc check.
PassRan == outcome \in {"completed", "aborted"}

PassCompleted == outcome = "completed"

IdsOf(shapes) == [i \in 1..Len(shapes) |-> shapes[i].id]

IdSet(shapes) == {shapes[i].id : i \in 1..Len(shapes)}

NoDuplicateIds(shapes) ==
    \A i, j \in 1..Len(shapes) : shapes[i].id = shapes[j].id => i = j

Attached(e) == \E k \in 1..Len(scene) : scene[k] = e

\* The editor the last pass started from.
PreEditor(diagram) ==
    [diagram |-> diagram, byId |-> pre.shapeRefsById,
     byElem |-> pre.shapeRefsByRenderElement, refs |-> pre.shapeRefs,
     scene |-> pre.scene, next |-> pre.nextElem, calls |-> <<>>,
     allShapes |-> <<>>, done |-> 0, thrown |-> FALSE]

\* The lists of a diagram: the root list and the child list of every group.
ListLengths ==
    UNION { {Len(l.rootIds), Len(l.g1), Len(l.g2)} : l \in Layouts }

Width == CHOOSE n \in ListLengths : \A m \in ListLengths : m <= n

Depth == Cardinality(GroupIds) + 1

\* A path names a place in the tree by the positions taken from the root list
\* downwards.
Paths == UNION { [1..n -> 1..Width] : n \in 1..Depth }

RECURSIVE ItemAt(_, _, _)
\* The item a path leads to, NoShape when the path leaves the tree or meets an
\* id that does not resolve.
ItemAt(d, list, p) ==
    IF p = <<>> \/ Head(p) > Len(list) THEN NoShape
    ELSE IF list[Head(p)] \notin DOMAIN d.items THEN NoShape
    ELSE LET item == d.items[list[Head(p)]]
         IN  IF Len(p) = 1 THEN item
             ELSE IF item.kind = "group" THEN ItemAt(d, item.childIds, Tail(p))
             ELSE NoShape

LeafPaths(d) == { p \in Paths : ItemAt(d, d.rootIds, p).kind = "shape" }

\* p comes before q in the depth-first walk: at the first position where they
\* part, p takes the earlier list entry.
Before(p, q) ==
    \E k \in 1..Len(p) :
        /\ k <= Len(q)
        /\ p[k] < q[k]
        /\ \A j \in 1..(k - 1) : p[j] = q[j]

Rank(d, p) == 1 + Cardinality({ q \in LeafPaths(d) : Before(q, p) })

\* The shapes of a diagram in depth-first order, root list first.
DepthFirstWalk(d) ==
    [k \in 1..Cardinality(LeafPaths(d)) |->
        ItemAt(d, d.rootIds, CHOOSE p \in LeafPaths(d) : Rank(d, p) = k)]

\* The diagram of the flatten example: roots [G1, S1], G1.children = [S2, S3].
IsFlattenExample(d) ==
    /\ d.rootIds = <<"G1", "S1">>
    /\ "G1" \in DOMAIN d.items
    /\ d.items["G1"].childIds = <<"S2", "S3">>

\* ------------------------------------------------------------------------
\* C1
\* ------------------------------------------------------------------------

\* C1: the list getFlattenShapes hands to a pass is the depth-first walk of
\* the diagram from rootIds in list order, a group standing for its children
\* at its place; it holds shapes only, and roots [G1, S1] with
\* G1.children = [S2, S3] flatten to [S2, S3, S1].
C1_FlattenIsDepthFirst ==
    PassRan =>
        /\ allShapes = DepthFirstWalk(selectedDiagram)
        /\ \A i \in 1..Len(allShapes) : allShapes[i].kind = "shape"
        /\ IsFlattenExample(selectedDiagram) =>
               IdsOf(allShapes) = <<"S2", "S3", "S1">>

\* A pass has flattened the diagram of the example.
C1_Witness ==
    /\ PassRan
    /\ IsFlattenExample(selectedDiagram)
    /\ IdsOf(allShapes) = <<"S2", "S3", "S1">>

\* ------------------------------------------------------------------------
\* C2
\* ------------------------------------------------------------------------

\* The ids of a list that resolve in the item mapping.
Resolved(d, ids) == SelectSeq(ids, LAMBDA id : id \in DOMAIN d.items)

\* The diagram with every id that does not resolve taken out of its lists.
Strip(d) ==
    [d EXCEPT !.rootIds = Resolved(d, @),
              !.items = [id \in DOMAIN d.items |->
                            IF d.items[id].kind = "group"
                            THEN [d.items[id] EXCEPT !.childIds = Resolved(d, @)]
                            ELSE d.items[id]]]

HasDangling(d) == Strip(d) # d

\* C2: a pass over a diagram with an unresolved id in the root list or in a
\* child list ends as the pass over the diagram without that id, started from
\* the same editor state, ends: the same flattened list, tables, ShapeRefs,
\* scene and render calls, and an error only where that pass raises one.
C2_DanglingIdsSkipped ==
    (PassRan /\ HasDangling(selectedDiagram)) =>
        LET R == renderDiagram(PreEditor(Strip(selectedDiagram)))
        IN  /\ allShapes = R.allShapes
            /\ shapeRefsById = R.byId
            /\ shapeRefsByRenderElement = R.byElem
            /\ shapeRefs = R.refs
            /\ scene = R.scene
            /\ renderCalls = R.calls
            /\ outcome = Outcome(R)

\* A pass has completed over a diagram whose group holds an unresolved id
\* between two shapes, and has put elements into the scene.
C2_Witness ==
    /\ PassCompleted
    /\ HasDangling(selectedDiagram)
    /\ "G1" \in DOMAIN selectedDiagram.items
    /\ selectedDiagram.items["G1"].childIds # Strip(selectedDiagram).items["G1"].childIds
    /\ Len(scene) = 3

\* ------------------------------------------------------------------------
\* C3
\* ------------------------------------------------------------------------

\* The element of the ShapeRef of every flattened shape, in flattened order.
ElementsInFlattenOrder ==
    [i \in 1..Len(allShapes) |->
        shapeRefs[shapeRefsById[allShapes[i].id]].renderedElement]

\* C3: after a completed pass whose flattened list names every shape id once,
\* the children of the scene root are the elements of the flattened shapes'
\* ShapeRefs, in flattened order.
C3_SceneOrderIsFlattenOrder ==
    (PassCompleted /\ NoDuplicateIds(allShapes)) =>
        /\ IdSet(allShapes) \subseteq DOMAIN shapeRefsById
        /\ scene = ElementsInFlattenOrder

\* A completed pass has rendered one element afresh, re-attached another, and
\* paints an older element over a newer one.
C3_Witness ==
    /\ PassCompleted
    /\ NoDuplicateIds(allShapes)
    /\ \E c \in 1..Len(renderCalls) : Attached(renderCalls[c].element)
    /\ \E k \in 1..Len(scene) : scene[k] < pre.nextElem
    /\ \E i, j \in 1..Len(scene) : i < j /\ scene[i] > scene[j]

\* ------------------------------------------------------------------------
\* C4
\* ------------------------------------------------------------------------

\* The shape ids that had a ShapeRef when the last pass started and are not in
\* its flattened list.
StaleIds == DOMAIN pre.shapeRefsById \ IdSet(allShapes)

\* C4: after a completed pass, a shape id that had a ShapeRef and is no longer
\* flattened has no entry in shapeRefsById, its ShapeRef is the value of no
\* entry of shapeRefsByRenderElement, and its element is not attached.
C4_StaleRefRemoved ==
    PassCompleted =>
        \A id \in StaleIds :
            /\ id \notin DOMAIN shapeRefsById
            /\ \A e \in DOMAIN shapeRefsByRenderElement :
                   shapeRefsByRenderElement[e] # pre.shapeRefsById[id]
            /\ ~Attached(pre.shapeRefs[pre.shapeRefsById[id]].renderedElement)

\* ------------------------------------------------------------------------
\* C5, C6
\* ------------------------------------------------------------------------

\* The ShapeRef a shape id had when the last pass started.
PreRef(id) == pre.shapeRefs[pre.shapeRefsById[id]]

\* The ShapeRef a shape id has now.
Ref(id) == shapeRefs[shapeRefsById[id]]

\* The shape had a ShapeRef with an element whose last-rendered Shape is this
\* very reference.
Unchanged(shape) ==
    /\ shape.id \in DOMAIN pre.shapeRefsById
    /\ PreRef(shape.id).renderedElement # NoElement
    /\ PreRef(shape.id).shape = shape

\* The shape had a ShapeRef whose last-rendered Shape is another reference.
Replaced(shape) ==
    /\ shape.id \in DOMAIN pre.shapeRefsById
    /\ PreRef(shape.id).shape # shape

\* The last pass made no render call for the shape's id, kept the element of
\* its ShapeRef and attached it.
Reattached(shape) ==
    /\ \A c \in 1..Len(renderCalls) : renderCalls[c].shape.id # shape.id
    /\ shape.id \in DOMAIN shapeRefsById
    /\ Ref(shape.id).renderedElement = PreRef(shape.id).renderedElement
    /\ Attached(Ref(shape.id).renderedElement)

\* The last pass made one render call with the shape, whose element is the
\* attached element of its ShapeRef; the element it had before is detached and
\* the ShapeRef remembers the shape.
Rerendered(shape) ==
    /\ Cardinality({ c \in 1..Len(renderCalls) : renderCalls[c].shape = shape }) = 1
    /\ \A c \in 1..Len(renderCalls) :
           renderCalls[c].shape.id = shape.id => renderCalls[c].shape = shape
    /\ shape.id \in DOMAIN shapeRefsById
    /\ \E c \in 1..Len(renderCalls) :
           /\ renderCalls[c].shape = shape
           /\ Ref(shape.id).renderedElement = renderCalls[c].element
    /\ Attached(Ref(shape.id).renderedElement)
    /\ ~Attached(PreRef(shape.id).renderedElement)
    /\ Ref(shape.id).shape = shape

\* C5 as stated: in every pass, aborted ones too, every flattened shape that
\* is unchanged is re-attached without a render call.
C5_EveryPassReattaches ==
    PassRan => \A i \in 1..Len(allShapes) :
                   Unchanged(allShapes[i]) => Reattached(allShapes[i])

\* C5, amended: in every pass, every unchanged flattened shape the pass gets
\* to (all of them when the pass completes) is re-attached without a render
\* call and its ShapeRef keeps its element; and a pass over the Diagram the
\* pass before it read makes no render call at all.
C5_ReachedUnchangedReattached ==
    /\ PassRan => \A i \in 1..processed :
                      Unchanged(allShapes[i]) => Reattached(allShapes[i])
    /\ (PassRan /\ pre.sameDiagram /\ pre.outcome \in {"completed", "aborted"})
           => renderCalls = <<>>

\* A completed pass has re-attached an unchanged shape and rendered another.
C5_Witness ==
    /\ PassCompleted
    /\ renderCalls # <<>>
    /\ \E i \in 1..processed : Unchanged(allShapes[i]) /\ Reattached(allShapes[i])

\* C6 as stated: in every pass, aborted ones too, every flattened shape whose
\* value was replaced is rendered once and its new element attached.
C6_EveryPassRerenders ==
    PassRan => \A i \in 1..Len(allShapes) :
                   Replaced(allShapes[i]) => Rerendered(allShapes[i])

\* C6, amended: in every pass, every flattened shape the pass gets to (all of
\* them when the pass completes) whose value was replaced is rendered exactly
\* once with the new value; its ShapeRef then holds the new, attached element
\* and the new value, and the element it held before is detached.
C6_ReachedReplacedRerendered ==
    PassRan => \A i \in 1..processed :
                   Replaced(allShapes[i]) => Rerendered(allShapes[i])

\* A completed pass has rendered a replaced shape anew next to another shape.
C6_Witness ==
    /\ PassCompleted
    /\ Len(scene) >= 2
    /\ \E i \in 1..processed : Replaced(allShapes[i]) /\ Rerendered(allShapes[i])

\* ------------------------------------------------------------------------
\* C7
\* ------------------------------------------------------------------------

\* The places of the flattened list whose renderer key is not registered.
Missing ==
    { i \in 1..Len(allShapes) : allShapes[i].renderer \notin RegisteredRenderers }

\* The shape at place i of the flattened list has an attached element.
ShapeAttached(i) ==
    /\ allShapes[i].id \in DOMAIN shapeRefsById
    /\ Attached(Ref(allShapes[i].id).renderedElement)

\* C7: a pass whose flattened list holds a shape with an unregistered renderer
\* key aborts at the first such shape: the shapes before it are attached, it
\* and the shapes after it are not.
C7_RegistryMissAborts ==
    (PassRan /\ Missing # {}) =>
        LET m == CHOOSE i \in Missing : \A j \in Missing : i <= j
        IN  /\ outcome = "aborted"
            /\ processed = m - 1
            /\ \A j \in 1..(m - 1) : ShapeAttached(j)
            /\ \A j \in m..Len(allShapes) : ~ShapeAttached(j)

\* ------------------------------------------------------------------------
\* C8
\* ------------------------------------------------------------------------

\* C8: a pass over the Diagram a completed pass has just read completes and
\* leaves both tables, every ShapeRef, the scene and the element counter as
\* that pass left them.
C8_SecondPassChangesNothing ==
    (PassRan /\ pre.sameDiagram /\ pre.outcome = "completed") =>
        /\ outcome = "completed"
        /\ shapeRefsById = pre.shapeRefsById
        /\ shapeRefsByRenderElement = pre.shapeRefsByRenderElement
        /\ shapeRefs = pre.shapeRefs
        /\ scene = pre.scene
        /\ nextElem = pre.nextElem

\* A second pass over the same Diagram has run with several elements attached,
\* one of them twice in the flattened list.
C8_Witness ==
    /\ PassRan /\ pre.sameDiagram /\ pre.outcome = "completed"
    /\ Len(scene) >= 2
    /\ ~NoDuplicateIds(allShapes)

\* ------------------------------------------------------------------------
\* C9
\* ------------------------------------------------------------------------

\* C9: after a pass, completed or aborted, props.selectedDiagram is the
\* Diagram the pass was given: root list, item mapping, child lists and Shape
\* values.
C9_DiagramUntouched ==
    PassRan => selectedDiagram = pre.selectedDiagram

\* A pass over a diagram with an unresolved id has changed the tables and the
\* scene.
C9_Witness ==
    /\ PassRan
    /\ HasDangling(selectedDiagram)
    /\ scene # pre.scene
    /\ shapeRefsById # pre.shapeRefsById
    /\ selectedDiagram = pre.selectedDiagram

\* ------------------------------------------------------------------------
\* C10
\* ------------------------------------------------------------------------

\* Every shape of the diagram has a registered renderer.
AllRegistered(d) ==
    \A id \in DOMAIN d.items :
        d.items[id].kind = "shape" => d.items[id].renderer \in RegisteredRenderers

\* The pass has returned normally, its second loop has gone through the whole
\* flattened list, and the list holds every shape occurrence of the walk once.
RanToCompletion ==
    /\ pc = "idle"
    /\ outcome = "completed"
    /\ processed = Len(allShapes)
    /\ allShapes = DepthFirstWalk(selectedDiagram)

\* C10: a pass that has started over a diagram whose shapes all have
\* registered renderers (the diagrams are trees or DAGs, with unresolved ids
\* and ids referenced twice) runs to completion: flattening ends, both loops
\* end, and every flattened shape occurrence is visited once.
C10_PassRunsToCompletion ==
    (pc # "idle" /\ AllRegistered(selectedDiagram)) ~> RanToCompletion

\* A pass has run to completion over a diagram that refers to a shape id from
\* two lists.
C10_Witness ==
    /\ RanToCompletion
    /\ AllRegistered(selectedDiagram)
    /\ ~NoDuplicateIds(allShapes)
    /\ Len(allShapes) >= 3

\* ------------------------------------------------------------------------
\* C11
\* ------------------------------------------------------------------------

\* C11: after a completed pass, whatever passes came before, the keys of
\* shapeRefsById are the ids of the flattened list, and the ShapeRef of each
\* holds an element and, as last-rendered Shape, the very Shape value the
\* diagram holds for the id.
C11_TableHoldsLiveShapes ==
    PassCompleted =>
        /\ DOMAIN shapeRefsById = IdSet(allShapes)
        /\ \A id \in DOMAIN shapeRefsById :
               /\ Ref(id).shape = selectedDiagram.items[id]
               /\ Ref(id).renderedElement # NoElement

\* A completed pass has pruned one id, rendered the replaced Shape of another
\* and followed an earlier pass that ran.
C11_Witness ==
    /\ PassCompleted
    /\ pre.outcome \in {"completed", "aborted"}
    /\ StaleIds # {}
    /\ \E i \in 1..Len(allShapes) : Replaced(allShapes[i]) /\ Rerendered(allShapes[i])

\* ------------------------------------------------------------------------
\* C12
\* ------------------------------------------------------------------------

\* C12: after a completed pass the keys of shapeRefsByRenderElement are the
\* current element ids of the ShapeRefs in shapeRefsById, and each key maps to
\* the ShapeRef whose current element has that id.
C12_TablesAgree ==
    PassCompleted =>
        /\ DOMAIN shapeRefsByRenderElement
               = { Ref(id).renderedElement : id \in DOMAIN shapeRefsById }
        /\ \A id \in DOMAIN shapeRefsById :
               shapeRefsByRenderElement[Ref(id).renderedElement] = shapeRefsById[id]
        /\ \A e \in DOMAIN shapeRefsByRenderElement :
               shapeRefs[shapeRefsByRenderElement[e]].renderedElement = e

\* ------------------------------------------------------------------------
\* C13
\* ------------------------------------------------------------------------

\* The ShapeRef objects that existed when the last pass started and still do.
KeptRefs == DOMAIN shapeRefs \cap DOMAIN pre.shapeRefs

\* C13: when a completed pass follows a completed pass and a shape id is in
\* the flattened list of the second and had a ShapeRef after the first,
\* shapeRefsById maps the id to that same ShapeRef object, also when the Shape
\* value was replaced; and no pass changes the showDebugMarkers flag or the
\* doc of a ShapeRef, which are the ones given to the constructor.
C13_RefIsStable ==
    /\ (PassCompleted /\ pre.outcome = "completed") =>
           \A id \in DOMAIN pre.shapeRefsById \cap IdSet(allShapes) :
               /\ id \in DOMAIN shapeRefsById
               /\ shapeRefsById[id] = pre.shapeRefsById[id]
    /\ PassRan =>
           /\ \A o \in KeptRefs :
                  /\ shapeRefs[o].showDebugMarkers = pre.shapeRefs[o].showDebugMarkers
                  /\ shapeRefs[o].doc = pre.shapeRefs[o].doc
           /\ \A o \in DOMAIN shapeRefs :
                  /\ shapeRefs[o].showDebugMarkers = ~isProduction
                  /\ shapeRefs[o].doc = TheDoc

\* A completed pass after a completed pass has rendered the replaced Shape
\* value of an id and re-attached the unchanged one of another, both through
\* the ShapeRefs the ids had.
C13_Witness ==
    /\ PassCompleted
    /\ pre.outcome = "completed"
    /\ \E i, j \in 1..Len(allShapes) :
           /\ Replaced(allShapes[i]) /\ Rerendered(allShapes[i])
           /\ shapeRefsById[allShapes[i].id] = pre.shapeRefsById[allShapes[i].id]
           /\ Unchanged(allShapes[j]) /\ Reattached(allShapes[j])
           /\ shapeRefsById[allShapes[j].id] = pre.shapeRefsById[allShapes[j].id]

\* ------------------------------------------------------------------------
\* C14
\* ------------------------------------------------------------------------

\* registeredRenderers[key]
Registry(key) == IF key \in RegisteredRenderers THEN key ELSE Undefined

\* The Renderer that made the element a ShapeRef holds: ShapeRef.render calls
\* this.renderer, which nothing assigns after the constructor.
ProducerOf(id) == Ref(id).renderer

\* C14: after a completed pass every flattened shape has an attached element,
\* made by the Renderer the registry has for the shape's current renderer key;
\* so were the elements the pass itself had rendered.
C14_ElementFromCurrentRenderer ==
    PassCompleted =>
        /\ \A i \in 1..Len(allShapes) :
               /\ ShapeAttached(i)
               /\ ProducerOf(allShapes[i].id) = Registry(allShapes[i].renderer)
        /\ \A c \in 1..Len(renderCalls) :
               renderCalls[c].renderer = Registry(renderCalls[c].shape.renderer)

\* ------------------------------------------------------------------------
\* C15
\* ------------------------------------------------------------------------

\* The current elements of the ShapeRefs in shapeRefsById.
CurrentElements == { Ref(id).renderedElement : id \in DOMAIN shapeRefsById }

\* The ids of the ShapeRef objects in shapeRefsById.
RefObjects == { shapeRefsById[id] : id \in DOMAIN shapeRefsById }

\* C15: after a pass, completed or aborted, no element is a child of the
\* scene root twice, every child is the current element of a ShapeRef in
\* shapeRefsById, and every shape id, however often the diagram refers to
\* it, has one ShapeRef and at most one attached element.
C15_NoDuplicateNoOrphan ==
    PassRan =>
        /\ \A i, j \in 1..Len(scene) : scene[i] = scene[j] => i = j
        /\ \A k \in 1..Len(scene) : scene[k] \in CurrentElements
        /\ Cardinality(RefObjects) = Cardinality(DOMAIN shapeRefsById)
        /\ Cardinality(CurrentElements) = Cardinality(DOMAIN shapeRefsById)
        /\ PassCompleted => Len(scene) = Cardinality(IdSet(allShapes))

\* A completed pass over a diagram that refers to a shape id from the root
\* list and from a group has rendered the replaced Shape of that id: its one
\* ShapeRef has one attached element.
C15_Witness ==
    /\ PassCompleted
    /\ ~NoDuplicateIds(allShapes)
    /\ \E i, j \in 1..Len(allShapes) :
           /\ i # j
           /\ allShapes[i].id = allShapes[j].id
           /\ Replaced(allShapes[i])
           /\ Cardinality({ k \in 1..Len(scene) :
                              scene[k] = Ref(allShapes[i].id).renderedElement }) = 1
    /\ Len(scene) = 2

\* An aborted pass has left an element attached and a registered ShapeRef
\* detached.
AbortedPassLeavesNoOrphan ==
    /\ outcome = "aborted"
    /\ scene # <<>>
    /\ \E id \in DOMAIN shapeRefsById : ~Attached(Ref(id).renderedElement)

\* ------------------------------------------------------------------------
\* C16
\* ------------------------------------------------------------------------

\* The editor with the fields of a snapshot and the given props.
EditorFrom(s, diagram) ==
    [diagram |-> diagram, byId |-> s.shapeRefsById,
     byElem |-> s.shapeRefsByRenderElement, refs |-> s.shapeRefs,
     scene |-> s.scene, next |-> s.nextElem, calls |-> <<>>,
     allShapes |-> <<>>, done |-> 0, thrown |-> FALSE]

\* What a scene shows, child by child: the Shape value drawn and the Renderer
\* that drew it, both read from the ShapeRef that holds the element.
Content(sc, refs) ==
    [k \in 1..Len(sc) |->
        LET o == CHOOSE x \in DOMAIN refs : refs[x].renderedElement = sc[k]
        IN  [shape |-> refs[o].shape, renderer |-> refs[o].renderer]]

\* The Shape values a scene shows, child by child.
ShapesShown(sc, refs) ==
    [k \in 1..Len(sc) |-> Content(sc, refs)[k].shape]

\* The last pass followed an aborted pass and read a diagram whose shapes all
\* have registered renderers.
RecoveryPass ==
    /\ PassRan
    /\ pre.outcome = "aborted"
    /\ AllRegistered(selectedDiagram)

\* The pass over the same diagram from where the aborted pass started.
WithoutAbortedPass == renderDiagram(EditorFrom(preAborted, selectedDiagram))

\* Every ShapeRef in a table holds an element, and every ShapeRef the aborted
\* pass left registered is attached again or gone from shapeRefsById.
NothingLeftBehind ==
    /\ \A id \in DOMAIN shapeRefsById : Ref(id).renderedElement # NoElement
    /\ \A e \in DOMAIN shapeRefsByRenderElement :
           shapeRefs[shapeRefsByRenderElement[e]].renderedElement # NoElement
    /\ \A id \in DOMAIN pre.shapeRefsById :
           \/ id \notin DOMAIN shapeRefsById
           \/ Attached(Ref(id).renderedElement)

\* C16: the pass after an aborted pass, over a diagram whose shapes all have
\* registered renderers, completes with the scene content and order and the
\* shapeRefsById keys that the pass has when the aborted pass is left out,
\* and leaves no ShapeRef detached or without an element in the tables.
C16_AbortLeavesNoTrace ==
    RecoveryPass =>
        /\ outcome = "completed"
        /\ Content(scene, shapeRefs)
               = Content(WithoutAbortedPass.scene, WithoutAbortedPass.refs)
        /\ DOMAIN shapeRefsById = DOMAIN WithoutAbortedPass.byId
        /\ NothingLeftBehind

\* The part of C16 that does not ask which Renderer drew an element: the
\* pass after an aborted pass completes, shows the same Shape values in the
\* same order and has the same shapeRefsById keys as without the aborted
\* pass, and leaves nothing behind.
RecoveryShowsSameShapes ==
    RecoveryPass =>
        /\ outcome = "completed"
        /\ ShapesShown(scene, shapeRefs)
               = ShapesShown(WithoutAbortedPass.scene, WithoutAbortedPass.refs)
        /\ DOMAIN shapeRefsById = DOMAIN WithoutAbortedPass.byId
        /\ NothingLeftBehind

\* ------------------------------------------------------------------------
\* C17
\* ------------------------------------------------------------------------

\* The last pass is the one initDiagramScope runs, or the update it forces
\* after it: no pass ran before it, or it read the Diagram of a completed
\* pass again.
ScopeJustInitialised ==
    /\ diagramDoc
    /\ \/ pre.outcome \in {"none", "skipped"}
       \/ pre.outcome = "completed" /\ pre.sameDiagram

\* C17: without a diagramDoc no update calls a Renderer and both tables stay
\* empty; with one, a pass over the current diagram has run, and after the
\* pass of initDiagramScope every flattened shape has an attached element;
\* a pass without a selected Diagram flattens to the empty list, leaves no
\* ShapeRef in either table and no child in the scene root.
C17_InitAndAbsentDiagram ==
    /\ ~diagramDoc =>
           /\ renderCalls = <<>>
           /\ shapeRefsById = EmptyMap
           /\ shapeRefsByRenderElement = EmptyMap
           /\ scene = <<>>
    /\ diagramDoc =>
           /\ PassRan
           /\ allShapes = getFlattenShapes(selectedDiagram)
    /\ ScopeJustInitialised => \A i \in 1..Len(allShapes) : ShapeAttached(i)
    /\ (PassRan /\ ~selectedDiagram.defined) =>
           /\ outcome = "completed"
           /\ allShapes = <<>>
           /\ shapeRefsById = EmptyMap
           /\ shapeRefsByRenderElement = EmptyMap
           /\ scene = <<>>

\* The part of C17 about the tables and the scene of a pass without a
\* selected Diagram.
AbsentDiagramLeavesNothing ==
    (PassRan /\ ~selectedDiagram.defined) =>
        /\ shapeRefsById = EmptyMap
        /\ shapeRefsByRenderElement = EmptyMap
        /\ scene = <<>>

\* ------------------------------------------------------------------------
\* C18
\* ------------------------------------------------------------------------

\* An action has been dispatched.
Dispatched == call.creator # "none"

ToastKinds == { toasts[k].kind : k \in 1..Len(toasts) }

\* C18: for every dispatched action the middleware has called next once,
\* with that action, and returned what next returned; it has displayed an
\* info toast only for SHOW_INFO_TOAST, an error toast only for
\* SHOW_ERROR_TOAST, and for those one toast each.
C18_MiddlewarePassesOn ==
    Dispatched =>
        /\ Len(nextLog) = 1
        /\ nextLog[1].action = dispatched
        /\ returned = nextLog[1].result
        /\ ("info" \in ToastKinds) <=> (dispatched.type = SHOW_INFO_TOAST)
        /\ ("error" \in ToastKinds) <=> (dispatched.type = SHOW_ERROR_TOAST)
        /\ Len(toasts) <= 1
        /\ dispatched.type \notin {SHOW_INFO_TOAST, SHOW_ERROR_TOAST} => toasts = <<>>

\* A toast action has gone through the middleware: the toast is shown, next
\* was called with the action and its result, not the action, came back.
C18_Witness ==
    /\ Dispatched
    /\ dispatched.type = SHOW_ERROR_TOAST
    /\ Len(toasts) = 1
    /\ Len(nextLog) = 1
    /\ nextLog[1].action = dispatched
    /\ returned = "promise"

\* ------------------------------------------------------------------------
\* C19
\* ------------------------------------------------------------------------

\* C19: the dispatch of showInfoToast(text) displays one info toast with that
\* text, the dispatch of showErrorToast(text) one error toast with that text.
C19_ToastShowsText ==
    /\ call.creator = "showInfoToast" =>
           toasts = << [kind |-> "info", text |-> call.arg] >>
    /\ call.creator = "showErrorToast" =>
           toasts = << [kind |-> "error", text |-> call.arg] >>

\* ------------------------------------------------------------------------
\* C20
\* ------------------------------------------------------------------------

\* C20: the reducer changes the field its action names and no other: SET_ZOOM
\* sets zoom to the level given, SELECT_TAB sets selectedTab, each toggle
\* negates its own sidebar flag, any other action returns the state as it
\* was; a toggle applied twice restores the state, the two toggles give
\* different states and commute.
C20_ReducerFrame ==
    /\ Dispatched =>
           CASE call.creator = "setZoom" ->
                    uiState = [uiBefore EXCEPT !.zoom = call.arg]
             [] call.creator = "selectTab" ->
                    uiState = [uiBefore EXCEPT !.selectedTab = call.arg]
             [] call.creator = "toggleLeftSidebar" ->
                    uiState = [uiBefore EXCEPT !.showLeftSidebar = ~@]
             [] call.creator = "toggleRightSidebar" ->
                    uiState = [uiBefore EXCEPT !.showRightSidebar = ~@]
             [] OTHER -> uiState = uiBefore
    /\ ui(ui(uiState, toggleLeftSidebar), toggleLeftSidebar) = uiState
    /\ ui(ui(uiState, toggleRightSidebar), toggleRightSidebar) = uiState
    /\ ui(uiState, toggleLeftSidebar) # ui(uiState, toggleRightSidebar)
    /\ ui(ui(uiState, toggleLeftSidebar), toggleRightSidebar)
           = ui(ui(uiState, toggleRightSidebar), toggleLeftSidebar)

\* The right sidebar has been toggled in a state that earlier actions have
\* changed in the three other fields.
C20_Witness ==
    /\ call.creator = "toggleRightSidebar"
    /\ uiState.showRightSidebar # uiBefore.showRightSidebar
    /\ uiState.showLeftSidebar # InitialUIState.showLeftSidebar
    /\ uiState.zoom # InitialUIState.zoom
    /\ uiState.selectedTab # InitialUIState.selectedTab

RECURSIVE FlattenCalls(_, _)
\* What the running handleContainer calls still push, innermost call first.
FlattenCalls(diagram, calls) ==
    IF calls = <<>> THEN <<>>
    ELSE handleContainer(diagram, calls[Len(calls)])
             \o FlattenCalls(diagram, SubSeq(calls, 1, Len(calls) - 1))

\* The walk taken step by step pushes what handleContainer, taken at once,
\* returns: at every step of a pass the shapes pushed so far, followed by what
\* the running calls still push, are the list getFlattenShapes returns.
StepsFlattenAsGetFlattenShapes ==
    pc # "idle" =>
        allShapes \o FlattenCalls(selectedDiagram, stack)
            = getFlattenShapes(selectedDiagram)

====
